---------------------------- MODULE Spec2Model ----------------------------
(***************************************************************************)
(* Here, For Now: the renderer (SVG + tokenURI codec) of the repository.   *)
(*                                                                         *)
(* Two revisions of HereForNowRenderer are in the repository:              *)
(*   "linear"    src/contracts/HereForNowRenderer.sol  (evenly rounded     *)
(*               lines, no threshold, tokenURI(count, totalBalance))       *)
(*   "quadratic" src/unnamed/part_002                  (quadratic ease-out *)
(*               lines, SOLID_THRESHOLD, tokenURI(count))                  *)
(* Both use src/contracts/lib/Base64.sol.                                  *)
(*                                                                         *)
(* Solidity strings are TLA+ strings (Len, \o and SubSeq work on them);    *)
(* Solidity bytes are sequences of integers 0..255.                        *)
(***************************************************************************)
EXTENDS Integers, Sequences, FiniteSets, TLC

VARIABLES
    rev,            \* which revision of HereForNowRenderer is deployed
    pc,             \* "idle" before the call under study, "done" after it
    count,          \* argument activeDepositors / activeParticipants
    svg,            \* generateSVG: the returned string
    ys,             \* generateSVG: y of the <use> elements written, in order
    bufferSize,     \* generateSVG: bytes allocated by new bytes(bufferSize)
    bufferEnd,      \* generateSVG: offset one past the last byte written
    data,           \* Base64.encode: the bytes to encode
    memAfter,       \* Base64.encode: the two bytes in memory after data
    encoded,        \* Base64.encode: the returned string
    weiAmount,      \* _formatEther: the argument, a uint256 in limbs
    formatted,      \* _formatEther: the returned string
    name,           \* storage: string public name
    description,    \* storage: string public description
    author,         \* storage: string public author ("" in the linear revision)
    urls,           \* storage: string[] _urls (<<>> in the linear revision)
    totalBalance,   \* tokenURI: argument of the linear revision, in limbs
    uri,            \* tokenURI: the returned string
    solidThreshold, \* renderer storage of the tunable revision (0: none)
    receipt,        \* the last transaction: call, sender, value, outcome
    ext,            \* which revision of HereForNowExtension is deployed
    balanceOf,      \* extension storage: mapping(address => uint256)
    extTotalBalance,  \* extension storage: uint256 totalBalance
    activeDepositors, \* extension storage: activeDepositors/activeParticipants
    ethHeld,        \* address(extension).balance
    initialized,    \* extension storage: bool initialized
    core,           \* extension storage: address core
    tokenId,        \* extension storage: uint256 tokenId
    renderer,       \* extension storage: address renderer
    actors,         \* the accounts that call the extension
    frame           \* the withdraw/leave whose transfer is in flight

svgVars == <<svg, ys, bufferSize, bufferEnd>>
base64Vars == <<data, memAfter, encoded>>
formatVars == <<weiAmount, formatted>>
metadataVars == <<name, description, author, urls>>
uriVars == <<totalBalance, uri>>

ledgerVars == <<balanceOf, extTotalBalance, activeDepositors, ethHeld>>
adminVars == <<initialized, core, tokenId, renderer>>
extVars == <<ext, ledgerVars, adminVars, actors, frame>>

vars == <<rev, pc, count, svgVars, base64Vars, formatVars, metadataVars,
          uriVars, solidThreshold, receipt, extVars>>

\* The variables of the calls not under study stay as they start
SvgIdle == svg = "" /\ ys = <<>> /\ bufferSize = 0 /\ bufferEnd = 0
Base64Idle == data = <<>> /\ memAfter = <<0, 0>> /\ encoded = ""
FormatIdle == weiAmount = <<0, 0, 0>> /\ formatted = ""
UriIdle == totalBalance = <<0, 0, 0>> /\ uri = ""

\* The accounts of the model: the deployer (owner of the renderer, admin of
\* the extension), two externally owned accounts, and a contract whose
\* receive function reverts
OWNER == "owner"
Addresses == {OWNER, "alice", "bob", "rejector"}

\* address(0)
ZERO_ADDRESS == "0x0"

\* The last transaction: the function called (op), msg.sender, msg.value or
\* the argument, the revert reason ("" when it succeeded), the events it
\* emitted and the ETH it sent to the sender. No transaction yet:
NoReceipt ==
    [op |-> "none", sender |-> ZERO_ADDRESS, value |-> 0, error |-> "",
     events |-> <<>>, paid |-> 0]

\* No call of the extension is in flight
NoFrame == [sender |-> ZERO_ADDRESS, balance |-> 0, saved |-> <<>>]

\* No extension is deployed
NO_EXTENSION == "none"

LedgerIdle ==
    /\ balanceOf = [a \in Addresses |-> 0]
    /\ extTotalBalance = 0
    /\ activeDepositors = 0
    /\ ethHeld = 0

AdminIdle ==
    /\ initialized = FALSE
    /\ core = ZERO_ADDRESS
    /\ tokenId = 0
    /\ renderer = ZERO_ADDRESS

RestIdle ==
    /\ solidThreshold = 0
    /\ receipt = NoReceipt
    /\ ext = NO_EXTENSION
    /\ LedgerIdle
    /\ AdminIdle
    /\ actors = {}
    /\ frame = NoFrame

restVars == <<solidThreshold, receipt, extVars>>

---------------------------------------------------------------------------
(* Bounds of the model *)

\* SpecLayout: the line placement of generateSVG for 0..MaxCount present
\* addresses
MaxCount == 600

\* SpecSVG: the bytes of generateSVG for 0..MaxSvgCount present addresses,
\* and for the counts within ThresholdWindow of the first solid one
MaxSvgCount == 100
ThresholdWindow == 2

\* SpecBase64: Base64.encode on the byte sequences of length 0..MaxDataLen
MaxDataLen == 4

\* SpecFormat: _formatEther on the amounts of 0..MaxWeiHigh times 10^14 wei
\* (0 to 1.2 ETH in steps of 0.0001 ETH), plus any lower digits
MaxWeiHigh == 12000

---------------------------------------------------------------------------
(* Text helpers *)

CharAt(str, i) == SubSeq(str, i, i)

\* ceil(a / b) for b > 0
CeilDiv(a, b) == (a + b - 1) \div b

\* The concatenation of strs[lo..hi], a sequence of strings
RECURSIVE Flatten(_, _, _)
Flatten(strs, lo, hi) ==
    IF lo > hi THEN ""
    ELSE IF lo = hi THEN strs[lo]
    ELSE LET mid == (lo + hi) \div 2
         IN  Flatten(strs, lo, mid) \o Flatten(strs, mid + 1, hi)

\* Number of places where pat occurs in str
Occurrences(str, pat) ==
    Cardinality({i \in 1..(Len(str) - Len(pat) + 1) :
                    SubSeq(str, i, i + Len(pat) - 1) = pat})

StartsWith(str, pat) ==
    Len(str) >= Len(pat) /\ SubSeq(str, 1, Len(pat)) = pat

EndsWith(str, pat) ==
    Len(str) >= Len(pat) /\ SubSeq(str, Len(str) - Len(pat) + 1, Len(str)) = pat

Digits == "0123456789"

DigitChar(d) == CharAt(Digits, d + 1)

\* The value of a string of decimal digits
RECURSIVE ParseDec(_)
ParseDec(str) ==
    IF Len(str) = 0 THEN 0
    ELSE 10 * ParseDec(SubSeq(str, 1, Len(str) - 1))
         + (CHOOSE d \in 0..9 : DigitChar(d) = CharAt(str, Len(str)))

IsDecimal(str) ==
    /\ Len(str) >= 1
    /\ \A i \in 1..Len(str) : \E d \in 0..9 : DigitChar(d) = CharAt(str, i)

---------------------------------------------------------------------------
(* HereForNowRenderer: constants *)

REV_LINEAR == "linear"
REV_QUADRATIC == "quadratic"
Revisions == {REV_LINEAR, REV_QUADRATIC}

---------------------------------------------------------------------------
(* HereForNowRenderer: constructor and setMetadata *)

Callers == {OWNER, "alice"}

\* The constructor arguments of the deployment script (quadratic revision)
RENDERER_CONFIG ==
    [name |-> "Here, For Now",
     description |-> "Here, For Now is a shared intimate space held by a single collector.\\n\\nAnyone can enter the space through a small onchain act of presence, adding themselves to the moment and shaping the image for as long as they choose to remain.\\n\\nThe work reflects the brief overlaps of the people who were here at the same time.",
     author |-> "ripe0x.eth",
     urls |-> <<"https://hfn.ripe.wtf", "https://superrare.com/curation/exhibitions/intimate-systems">>]

\* The storage after construction: the linear revision takes no arguments
constructor(r, args) ==
    IF r = REV_LINEAR
    THEN [name |-> "Here, For Now",
          description |-> "This work treats the chain as a place where presence can be held, not just seen. Living directly on programmable money, it uses ETH itself as the material for showing up: a single contract where people leave part of their balance alongside others, with no yield and no reward. Being present here simply means letting some of your ETH remain for a while. Withdrawing it is always possible, but each decision to stay or to leave is reflected in the brightness of the image and in the brief overlap of everyone who chose to be here at the same time.",
          author |-> "",
          urls |-> <<>>]
    ELSE args

\* The storage holds the metadata m
Stored(m) ==
    /\ name = m.name
    /\ description = m.description
    /\ author = m.author
    /\ urls = m.urls

\* The renderer as the repository deploys it
Deployed == Stored(constructor(rev, RENDERER_CONFIG))

\* setMetadata: the linear revision has name and description only
setMetadata(r, args) ==
    IF r = REV_LINEAR
    THEN [name |-> args.name, description |-> args.description,
          author |-> "", urls |-> <<>>]
    ELSE args

---------------------------------------------------------------------------
(* HereForNowRenderer: constants of generateSVG *)

LINE_Y_TOP == 200
LINE_Y_BOTTOM == 799
SOLID_THRESHOLD == 599

SVG_OPEN ==
    "<svg width=\"4000\" height=\"4000\" viewBox=\"0 0 1000 1000\" fill=\"none\" xmlns=\"http://www.w3.org/2000/svg\">"
SVG_DEFS ==
    "<defs><rect id=\"l\" width=\"400\" height=\"1\" fill=\"white\"/></defs>"
SVG_BACKGROUND ==
    "<rect width=\"1000\" height=\"1000\" fill=\"#0A0A0A\"/>"
SVG_SOLID ==
    "<rect x=\"300\" y=\"200\" width=\"400\" height=\"600\" fill=\"white\"/>"
SVG_USE_TOP ==
    "<use href=\"#l\" x=\"300\" y=\"200\"/>"
SVG_USE_BOTTOM ==
    "<use href=\"#l\" x=\"300\" y=\"799\"/>"
SVG_USE_PREFIX ==
    "<use href=\"#l\" x=\"300\" y=\""
SVG_USE_SUFFIX ==
    "\"/>"
SVG_CLOSE ==
    "</svg>"

---------------------------------------------------------------------------
(* HereForNowRenderer: assembly string helpers *)

\* A buffer under construction: the bytes between the start of the buffer
\* and ptr (data), and the offset one past the last byte any mstore touched
\* (end): _writeString copies whole 32-byte words.
NewBuffer == [data |-> "", end |-> 0]

Max(a, b) == IF a >= b THEN a ELSE b

_writeString(buf, str) ==
    [data |-> buf.data \o str,
     end  |-> Max(buf.end, Len(buf.data) + 32 * CeilDiv(Len(str), 32))]

\* The decimal digits of value, most significant first
RECURSIVE _writeUintDigits(_)
_writeUintDigits(value) ==
    IF value = 0 THEN ""
    ELSE _writeUintDigits(value \div 10) \o DigitChar(value % 10)

_writeUint(buf, value) ==
    LET str == IF value = 0 THEN "0" ELSE _writeUintDigits(value)
    IN  [data |-> buf.data \o str,
         end  |-> Max(buf.end, Len(buf.data) + Len(str))]

---------------------------------------------------------------------------
(* HereForNowRenderer.generateSVG *)

\* Mutant of LineYLinear: the quotient is cut, nothing is added before the
\* division
LineYLinearCut(i, intervals) ==
    LET verticalSpan == LINE_Y_BOTTOM - LINE_Y_TOP
    IN  LINE_Y_TOP + (verticalSpan * i) \div intervals

\* y of line i of the loop, i in 0..intervals
LineYLinear(i, intervals) ==
    LET verticalSpan == LINE_Y_BOTTOM - LINE_Y_TOP
    IN  LINE_Y_TOP + ((verticalSpan * i) + (intervals \div 2)) \div intervals

\* Mutant of LineYQuadratic: ease-in, the square of t is added to the top
LineYQuadraticEaseIn(i, intervals) ==
    LET verticalSpan == LINE_Y_BOTTOM - LINE_Y_TOP
        t == (i * 1000) \div intervals
    IN  LINE_Y_TOP + (verticalSpan * t * t) \div 1000000

\* y of line i under the quadratic ease-out law
LineYQuadratic(i, intervals) ==
    LET verticalSpan == LINE_Y_BOTTOM - LINE_Y_TOP
        t == (i * 1000) \div intervals
        invT == 1000 - t
    IN  LINE_Y_TOP + verticalSpan - (verticalSpan * invT * invT) \div 1000000

\* Mutant of LineY: the position is normalised by totalLines, not intervals
LineYByTotalLines(r, i, intervals) ==
    IF r = REV_LINEAR THEN LineYLinear(i, intervals + 1)
    ELSE LineYQuadratic(i, intervals + 1)

\* Mutant of LineY: the eased term is added to the top instead of taken
\* from the bottom, and the rounded term is taken from the bottom
LineYInverted(r, i, intervals) ==
    IF r = REV_LINEAR
      THEN LINE_Y_BOTTOM - (LineYLinear(i, intervals) - LINE_Y_TOP)
    ELSE LINE_Y_BOTTOM - (LineYQuadratic(i, intervals) - LINE_Y_TOP)

LineY(r, i, intervals) ==
    IF r = REV_LINEAR THEN LineYLinear(i, intervals)
    ELSE LineYQuadratic(i, intervals)

\* Mutant of IsSolid: the comparison is strict, the switch comes one late
IsSolidStrict(r, totalLines) ==
    r = REV_QUADRATIC /\ totalLines > SOLID_THRESHOLD

\* Whether the revision draws the solid rectangle for totalLines lines
IsSolid(r, totalLines) ==
    r = REV_QUADRATIC /\ totalLines >= SOLID_THRESHOLD

\* The y values written as <use> elements, in the order written
lineYs(r, activeParticipants) ==
    LET totalLines == 2 + activeParticipants
    IN  IF IsSolid(r, totalLines) THEN <<>>
        ELSE IF totalLines = 2 THEN <<LINE_Y_TOP, LINE_Y_BOTTOM>>
        ELSE [k \in 1..totalLines |-> LineY(r, k - 1, totalLines - 1)]

\* One iteration of the loop: three writes
writeLine(buf, y) ==
    _writeString(_writeUint(_writeString(buf, SVG_USE_PREFIX), y), SVG_USE_SUFFIX)

\* The loop over i = 0..totalLines-1 from buffer buf
writeLines(buf, r, totalLines) ==
    LET intervals == totalLines - 1
        one == [k \in 1..totalLines |->
                    writeLine(NewBuffer, LineY(r, k - 1, intervals)).data]
        all == Flatten(one, 1, totalLines)
    IN  [data |-> buf.data \o all,
         \* the last write of the loop is the 3-byte suffix, one 32-byte word
         end  |-> Max(buf.end, Len(buf.data) + Len(all) - Len(SVG_USE_SUFFIX) + 32)]

\* The writes of generateSVG, solid telling which branch is taken
svgBuffer(r, solid, activeParticipants) ==
    LET totalLines == 2 + activeParticipants
        b0 == NewBuffer
        b1 == _writeString(b0, SVG_OPEN)
        b2 == _writeString(b1, SVG_DEFS)
        b3 == _writeString(b2, SVG_BACKGROUND)
        b4 == IF solid
                THEN _writeString(b3, SVG_SOLID)
              ELSE IF totalLines = 2
                THEN _writeString(_writeString(b3, SVG_USE_TOP), SVG_USE_BOTTOM)
              ELSE writeLines(b3, r, totalLines)
    IN  _writeString(b4, SVG_CLOSE)

generateSVGBuffer(r, activeParticipants) ==
    svgBuffer(r, IsSolid(r, 2 + activeParticipants), activeParticipants)

BufferSize(activeParticipants) ==
    LET totalLines == 2 + activeParticipants
    IN  200 + (totalLines * 30) + 10

generateSVG(r, activeParticipants) ==
    generateSVGBuffer(r, activeParticipants).data

---------------------------------------------------------------------------
(* Specification SpecSVG: generateSVG, the bytes it returns *)

\* The least count for which the quadratic revision draws the rectangle
FirstSolidCount == SOLID_THRESHOLD - 2

SvgCounts ==
    (0..MaxSvgCount)
    \cup ((FirstSolidCount - ThresholdWindow)..(FirstSolidCount + ThresholdWindow))

InitSVG ==
    /\ rev \in Revisions
    /\ count \in SvgCounts
    /\ pc = "idle"
    /\ SvgIdle
    /\ Base64Idle
    /\ FormatIdle
    /\ Deployed
    /\ UriIdle
    /\ RestIdle

GenerateSVG ==
    /\ pc = "idle"
    /\ pc' = "done"
    /\ LET buf == generateSVGBuffer(rev, count)
       IN  /\ svg' = buf.data
           /\ bufferEnd' = buf.end
    /\ ys' = lineYs(rev, count)
    /\ bufferSize' = BufferSize(count)
    /\ UNCHANGED <<rev, count, base64Vars, formatVars, metadataVars, uriVars>>
    /\ UNCHANGED restVars

NextSVG == GenerateSVG

SpecSVG == InitSVG /\ [][NextSVG]_vars

---------------------------------------------------------------------------
(* Specification SpecLayout: generateSVG, the line placement only (the     *)
(* bytes are not built), for every count of 0..MaxCount                    *)

InitLayout ==
    /\ rev \in Revisions
    /\ count \in 0..MaxCount
    /\ pc = "idle"
    /\ SvgIdle
    /\ Base64Idle
    /\ FormatIdle
    /\ Deployed
    /\ UriIdle
    /\ RestIdle

GenerateSVGLines ==
    /\ pc = "idle"
    /\ pc' = "done"
    /\ ys' = lineYs(rev, count)
    /\ UNCHANGED <<rev, count, svg, bufferSize, bufferEnd, base64Vars,
                   formatVars, metadataVars, uriVars>>
    /\ UNCHANGED restVars

NextLayout == GenerateSVGLines

SpecLayout == InitLayout /\ [][NextLayout]_vars

---------------------------------------------------------------------------
(* Base64.encode *)

TABLE ==
    "ABCDEFGHIJKLMNOPQRSTUVWXYZabcdefghijklmnopqrstuvwxyz0123456789+/"

\* mload(add(tablePtr, idx)), lowest byte: character idx of the table
TableChar(idx) == CharAt(TABLE, idx + 1)

\* The byte at offset k (from 0) of the memory that starts with bytes: past
\* its end lie the bytes after, which encode does not own
MemByte(bytes, after, k) ==
    IF k < Len(bytes) THEN bytes[k + 1] ELSE after[k - Len(bytes) + 1]

\* The low 24 bits of mload(dataPtr) in iteration g (from 0) of the loop:
\* three bytes of memory, whether or not they all belong to the input
Input(bytes, after, g) ==
    MemByte(bytes, after, 3 * g) * 65536
    + MemByte(bytes, after, 3 * g + 1) * 256
    + MemByte(bytes, after, 3 * g + 2)

\* Mutant of Group: the second character is shifted by 10, not 12
GroupWrongShift(input) ==
    TableChar((input \div 262144) % 64)
    \o TableChar((input \div 1024) % 64)
    \o TableChar((input \div 64) % 64)
    \o TableChar(input % 64)

\* The four characters written for one 24-bit input
Group(input) ==
    TableChar((input \div 262144) % 64)
    \o TableChar((input \div 4096) % 64)
    \o TableChar((input \div 64) % 64)
    \o TableChar(input % 64)

\* Mutant of EncodedLen: the length is rounded down
EncodedLenFloor(n) == 4 * (n \div 3)

EncodedLen(n) == 4 * ((n + 2) \div 3)

\* Mutant of Padding: the two cases are exchanged
PaddingSwapped(written, n) ==
    IF n % 3 = 2 THEN SubSeq(written, 1, Len(written) - 2) \o "=="
    ELSE IF n % 3 = 1 THEN SubSeq(written, 1, Len(written) - 1) \o "="
    ELSE written

\* The switch on mod(mload(data), 3): '=' stored over the last characters
Padding(written, n) ==
    IF n % 3 = 1 THEN SubSeq(written, 1, Len(written) - 2) \o "=="
    ELSE IF n % 3 = 2 THEN SubSeq(written, 1, Len(written) - 1) \o "="
    ELSE written

encode(bytes, after) ==
    IF Len(bytes) = 0 THEN ""
    ELSE LET n == Len(bytes)
             \* the loop adds 3 to dataPtr while dataPtr < endPtr
             iterations == CeilDiv(n, 3)
             groups == [g \in 1..iterations |-> Group(Input(bytes, after, g - 1))]
             written == Padding(Flatten(groups, 1, iterations), n)
         IN  \* mstore(result, encodedLen): the string is the first encodedLen
             \* bytes of what was written
             SubSeq(written, 1, EncodedLen(n))

---------------------------------------------------------------------------
(* Specification SpecBase64: Base64.encode on byte sequences, with any     *)
(* bytes in the memory after them                                          *)

ByteSamples == {0, 77, 97, 170, 255}

RECURSIVE ByteSeqs(_)
ByteSeqs(len) ==
    IF len = 0 THEN {<<>>}
    ELSE LET shorter == ByteSeqs(len - 1)
         IN  shorter \cup {Append(b, x) : b \in {c \in shorter : Len(c) = len - 1},
                                         x \in ByteSamples}

MemAfterSamples == {<<0, 0>>, <<255, 255>>, <<170, 85>>}

InitBase64 ==
    /\ rev = REV_QUADRATIC
    /\ count = 0
    /\ pc = "idle"
    /\ SvgIdle
    /\ FormatIdle
    /\ Deployed
    /\ UriIdle
    /\ RestIdle
    /\ data \in ByteSeqs(MaxDataLen)
    /\ memAfter \in MemAfterSamples
    /\ encoded = ""

Encode ==
    /\ pc = "idle"
    /\ pc' = "done"
    /\ encoded' = encode(data, memAfter)
    /\ UNCHANGED <<rev, count, svgVars, data, memAfter, formatVars,
                   metadataVars, uriVars>>
    /\ UNCHANGED restVars

NextBase64 == Encode

SpecBase64 == InitBase64 /\ [][NextBase64]_vars

---------------------------------------------------------------------------
(* HereForNowRenderer._formatEther (linear revision) *)

\* A uint256 amount of wei is <<high, mid, low>>, standing for
\* high * 10^14 + mid * 10^7 + low with mid and low in 0..10^7 - 1: the
\* checker's integers are 32 bits wide, 10^18 does not fit in one.
LIMB == 10000000

IsWei(a) ==
    /\ a[1] >= 0
    /\ a[2] \in 0..(LIMB - 1)
    /\ a[3] \in 0..(LIMB - 1)

\* weiAmount / 1e18: 10^18 = 10^4 * 10^14, and mid * 10^7 + low < 10^14
WeiDivE18(a) == a[1] \div 10000

\* (weiAmount % 1e18) / 1e14
WeiModE18DivE14(a) == a[1] % 10000

\* Strings.toString(uint256): decimal, no leading zeros
RECURSIVE toString(_)
toString(value) ==
    IF value < 10 THEN DigitChar(value)
    ELSE toString(value \div 10) \o DigitChar(value % 10)

\* Mutant of _formatEther: the fraction is rounded to the nearest 0.0001
\* instead of cut
_formatEtherRounding(a) ==
    LET up == IF a[2] >= LIMB \div 2 THEN 1 ELSE 0
        whole == (a[1] + up) \div 10000
        fraction == (a[1] + up) % 10000
        fractionStr ==
            IF fraction = 0 THEN "0000"
            ELSE IF fraction < 10 THEN "000" \o toString(fraction)
            ELSE IF fraction < 100 THEN "00" \o toString(fraction)
            ELSE IF fraction < 1000 THEN "0" \o toString(fraction)
            ELSE toString(fraction)
    IN  toString(whole) \o "." \o fractionStr \o " ETH"

\* Mutant of _formatEther: the branch for fractions below 100 pads with one
\* zero too few
_formatEtherShortPad(a) ==
    LET whole == WeiDivE18(a)
        fraction == WeiModE18DivE14(a)
        fractionStr ==
            IF fraction = 0 THEN "0000"
            ELSE IF fraction < 10 THEN "000" \o toString(fraction)
            ELSE IF fraction < 100 THEN "0" \o toString(fraction)
            ELSE IF fraction < 1000 THEN "0" \o toString(fraction)
            ELSE toString(fraction)
    IN  toString(whole) \o "." \o fractionStr \o " ETH"

_formatEther(a) ==
    LET whole == WeiDivE18(a)
        fraction == WeiModE18DivE14(a)
        fractionStr ==
            IF fraction = 0 THEN "0000"
            ELSE IF fraction < 10 THEN "000" \o toString(fraction)
            ELSE IF fraction < 100 THEN "00" \o toString(fraction)
            ELSE IF fraction < 1000 THEN "0" \o toString(fraction)
            ELSE toString(fraction)
    IN  toString(whole) \o "." \o fractionStr \o " ETH"

---------------------------------------------------------------------------
(* Specification SpecFormat: _formatEther on amounts of wei *)

\* High limbs: every 0.0001 ETH step up to MaxWeiHigh, 1.9999 and 2 ETH,
\* and a large amount
WeiHighSamples == (0..MaxWeiHigh) \cup {19999, 20000, 1234567890}

\* Lower 14 digits: none, all nines, and exactly one half of 0.0001 ETH
WeiLowSamples == {<<0, 0>>, <<LIMB - 1, LIMB - 1>>, <<LIMB \div 2, 0>>}

InitFormat ==
    /\ rev = REV_LINEAR
    /\ count = 0
    /\ pc = "idle"
    /\ SvgIdle
    /\ Base64Idle
    /\ Deployed
    /\ UriIdle
    /\ RestIdle
    /\ \E h \in WeiHighSamples, l \in WeiLowSamples : weiAmount = <<h, l[1], l[2]>>
    /\ formatted = ""

FormatEther ==
    /\ pc = "idle"
    /\ pc' = "done"
    /\ formatted' = _formatEther(weiAmount)
    /\ UNCHANGED <<rev, count, svgVars, base64Vars, weiAmount, metadataVars,
                   uriVars>>
    /\ UNCHANGED restVars

NextFormat == FormatEther

SpecFormat == InitFormat /\ [][NextFormat]_vars

---------------------------------------------------------------------------
(* HereForNowRenderer.tokenURI *)

\* The characters of code 32..95 and 97..126, in order of their code
ASCII_32_95 ==
    " !\"#$%&'()*+,-./0123456789:;<=>?@ABCDEFGHIJKLMNOPQRSTUVWXYZ[\\]^_"

ASCII_97_126 == "abcdefghijklmnopqrstuvwxyz{|}~"

\* The byte of each character a string of the model can hold
CharCodes ==
    [c \in {CharAt(ASCII_32_95, i) : i \in 1..64}
             \cup {CharAt(ASCII_97_126, i) : i \in 1..30}
             \cup {"\t", "\n", "\r"} |->
        IF c = "\t" THEN 9
        ELSE IF c = "\n" THEN 10
        ELSE IF c = "\r" THEN 13
        ELSE IF \E i \in 1..64 : CharAt(ASCII_32_95, i) = c
        THEN 31 + (CHOOSE i \in 1..64 : CharAt(ASCII_32_95, i) = c)
        ELSE 96 + (CHOOSE i \in 1..30 : CharAt(ASCII_97_126, i) = c)]

\* bytes(str): the bytes of a string
StringBytes(str) == [i \in 1..Len(str) |-> CharCodes[CharAt(str, i)]]

\* string(abi.encodePacked(...)): the JSON text of tokenURI; value is the
\* count in decimal, ether the formatted balance (linear revision only)
jsonText(r, nm, desc, base64SVG, value, ether) ==
    IF r = REV_LINEAR
    THEN "{\"name\":\"" \o nm
         \o "\",\"description\":\"" \o desc
         \o "\",\"image\":\"data:image/svg+xml;base64," \o base64SVG
         \o "\",\"attributes\":[{\"trait_type\":\"Present Depositors\",\"value\":"
         \o value
         \o "},{\"trait_type\":\"Total ETH Held\",\"value\":\""
         \o ether
         \o "\"}]}"
    ELSE "{\"name\":\"" \o nm
         \o "\",\"description\":\"" \o desc
         \o "\",\"image\":\"data:image/svg+xml;base64," \o base64SVG
         \o "\",\"attributes\":[{\"trait_type\":\"Present\",\"value\":"
         \o value
         \o "}]}"

\* The value written for the count attribute is the line count
tokenURILineCount(r, nm, desc, activeParticipants, balance, afterSvg, afterJson) ==
    LET svgText == generateSVG(r, activeParticipants)
        base64SVG == encode(StringBytes(svgText), afterSvg)
        json == jsonText(r, nm, desc, base64SVG,
                         toString(2 + activeParticipants), _formatEther(balance))
    IN  "data:application/json;base64," \o encode(StringBytes(json), afterJson)

\* afterSvg, afterJson: the two bytes in memory after svg and after json
tokenURI(r, nm, desc, activeParticipants, balance, afterSvg, afterJson) ==
    LET svgText == generateSVG(r, activeParticipants)
        base64SVG == encode(StringBytes(svgText), afterSvg)
        json == jsonText(r, nm, desc, base64SVG,
                         toString(activeParticipants), _formatEther(balance))
    IN  "data:application/json;base64," \o encode(StringBytes(json), afterJson)

---------------------------------------------------------------------------
(* SpecURI: the owner sets the metadata, then tokenURI is called *)

\* tokenURI for 0..MaxUriCount present addresses, and for the first solid
\* count of the revision that has one
MaxUriCount == 5

UriCounts(r) ==
    (0..MaxUriCount) \cup (IF r = REV_QUADRATIC THEN {FirstSolidCount} ELSE {})

\* Constructor and setMetadata arguments: the deployment's, the tests', and
\* strings with a quote, a backslash and control characters
MetadataSamples ==
    { RENDERER_CONFIG,
      [name |-> "Here, For Now",
       description |-> "This work treats the chain as a place where presence can be held, not just seen. Living directly on programmable money, it uses ETH itself as the material for showing up.",
       author |-> "ripe0x.eth",
       urls |-> <<"https://hfn.ripe.wtf">>],
      [name |-> "New Name", description |-> "New Description",
       author |-> "", urls |-> <<>>],
      [name |-> "Here, \"For Now\"", description |-> "New Description",
       author |-> "", urls |-> <<>>],
      [name |-> "New Name", description |-> "C:\\",
       author |-> "", urls |-> <<>>],
      [name |-> "New\tName", description |-> "line one\nline two",
       author |-> "", urls |-> <<>>] }

\* totalBalance: 0, 2 ETH, 1.50001234567 ETH
BalanceSamples == {<<0, 0, 0>>, <<20000, 0, 0>>, <<15000, 1234567, 0>>}

UriMemAfterSamples == {<<0, 0>>, <<255, 255>>}

InitURI ==
    /\ rev \in Revisions
    /\ count \in UriCounts(rev)
    /\ pc = "idle"
    /\ SvgIdle
    /\ Base64Idle
    /\ FormatIdle
    /\ \E args \in MetadataSamples : Stored(constructor(rev, args))
    /\ totalBalance \in (IF rev = REV_LINEAR THEN BalanceSamples
                         ELSE {<<0, 0, 0>>})
    /\ uri = ""
    /\ RestIdle

\* setMetadata is onlyOwner: the call of any other caller reverts
SetMetadata ==
    /\ pc = "idle"
    /\ \E caller \in Callers, args \in MetadataSamples :
        /\ caller = OWNER
        /\ LET m == setMetadata(rev, args)
           IN  /\ name' = m.name
               /\ description' = m.description
               /\ author' = m.author
               /\ urls' = m.urls
    /\ UNCHANGED <<rev, pc, count, svgVars, base64Vars, formatVars, uriVars>>
    /\ UNCHANGED restVars

TokenURI ==
    /\ pc = "idle"
    /\ pc' = "done"
    /\ \E afterSvg \in UriMemAfterSamples, afterJson \in UriMemAfterSamples :
        uri' = tokenURI(rev, name, description, count, totalBalance,
                        afterSvg, afterJson)
    /\ UNCHANGED <<rev, count, svgVars, base64Vars, formatVars, metadataVars,
                   totalBalance>>
    /\ UNCHANGED restVars

NextURI == SetMetadata \/ TokenURI

SpecURI == InitURI /\ [][NextURI]_vars

---------------------------------------------------------------------------
(* The renderer with a tunable threshold: the revision that the tests of   *)
(* src/unnamed/part_008 deploy. It is the quadratic revision with the      *)
(* threshold in storage, set by setSolidThreshold (onlyOwner).             *)

REV_TUNABLE == "tunable"

\* The threshold after construction
DEFAULT_SOLID_THRESHOLD == 420

\* Mutant of IsSolidAt: the comparison is strict
IsSolidAtStrict(threshold, totalLines) == totalLines > threshold

\* if (totalLines >= threshold)
IsSolidAt(threshold, totalLines) == totalLines >= threshold

generateSVGTunable(threshold, activeParticipants) ==
    svgBuffer(REV_QUADRATIC, IsSolidAt(threshold, 2 + activeParticipants),
              activeParticipants).data

\* SpecThreshold: callers set the threshold, then generateSVG is called

\* generateSVG for 0..MaxThresholdCount present addresses and around the
\* default threshold
MaxThresholdCount == 9

ThresholdCounts ==
    (0..MaxThresholdCount)
    \cup {DEFAULT_SOLID_THRESHOLD - 3, DEFAULT_SOLID_THRESHOLD - 2}

\* Arguments of setSolidThreshold
ThresholdSamples == {3, 5, 10, 420}

InitThreshold ==
    /\ rev = REV_TUNABLE
    /\ count \in ThresholdCounts
    /\ pc = "idle"
    /\ SvgIdle
    /\ Base64Idle
    /\ FormatIdle
    /\ Deployed
    /\ UriIdle
    /\ solidThreshold = DEFAULT_SOLID_THRESHOLD
    /\ receipt = NoReceipt
    /\ ext = NO_EXTENSION
    /\ LedgerIdle
    /\ AdminIdle
    /\ actors = {}
    /\ frame = NoFrame

\* setSolidThreshold is onlyOwner: the call of any other caller reverts
SetSolidThreshold ==
    /\ pc = "idle"
    /\ \E caller \in Callers, threshold \in ThresholdSamples :
        IF caller = OWNER
        THEN /\ solidThreshold' = threshold
             /\ receipt' = [op |-> "setSolidThreshold", sender |-> caller,
                            value |-> threshold, error |-> "",
                            events |-> <<>>, paid |-> 0]
        ELSE /\ solidThreshold' = solidThreshold
             /\ receipt' = [op |-> "setSolidThreshold", sender |-> caller,
                            value |-> threshold,
                            error |-> "Ownable: caller is not the owner",
                            events |-> <<>>, paid |-> 0]
    /\ UNCHANGED <<rev, pc, count, svgVars, base64Vars, formatVars,
                   metadataVars, uriVars, extVars>>

GenerateSVGTunable ==
    /\ pc = "idle"
    /\ pc' = "done"
    /\ svg' = generateSVGTunable(solidThreshold, count)
    /\ UNCHANGED <<rev, count, ys, bufferSize, bufferEnd, base64Vars,
                   formatVars, metadataVars, uriVars, solidThreshold, receipt,
                   extVars>>

NextThreshold == SetSolidThreshold \/ GenerateSVGTunable

SpecThreshold == InitThreshold /\ [][NextThreshold]_vars

---------------------------------------------------------------------------
(* HereForNowExtension: the ledger                                         *)
(*   "deposit"  src/unnamed/part_014 (deposit, withdraw, activeDepositors) *)
(*   "enter"    src/frontend/app/page.tsx (enter, leave,                   *)
(*              activeParticipants)                                        *)

EXT_DEPOSIT == "deposit"
EXT_ENTER == "enter"
ExtRevisions == {EXT_DEPOSIT, EXT_ENTER}

\* The renderer each extension revision is deployed with
RendererOf(e) == IF e = EXT_DEPOSIT THEN REV_LINEAR ELSE REV_QUADRATIC

\* The names of the two ledger functions
DepositOp(e) == IF e = EXT_DEPOSIT THEN "deposit" ELSE "enter"
WithdrawOp(e) == IF e = EXT_DEPOSIT THEN "withdraw" ELSE "leave"

\* Whether a call{value: ...}("") to the account succeeds
AcceptsETH(a) == a # "rejector"

\* Mutant of depositError: a call without value goes through
depositErrorNone(e, balance, value) == ""

\* The revert reason of deposit/enter ("" when it goes through)
depositError(e, balance, value) ==
    IF value = 0
    THEN (IF e = EXT_DEPOSIT THEN "ZeroDeposit" ELSE "ZeroAmount")
    ELSE ""

\* Mutant of depositCount: every deposit counts
depositCountAlways(active, balance) == active + 1

\* activeDepositors after a deposit by an address that had balance
depositCount(active, balance) ==
    LET wasZero == balance = 0
    IN  IF wasZero THEN active + 1 ELSE active

\* The events of deposit/enter
depositEvents(e, sender, value, newBalance) ==
    IF e = EXT_DEPOSIT
    THEN <<[name |-> "Deposited", account |-> sender, amount |-> value,
            newBalance |-> newBalance]>>
    ELSE <<[name |-> "Entered", account |-> sender, amount |-> value,
            newBalance |-> newBalance]>>

\* Mutant of withdrawError: the last address present cannot leave
withdrawErrorLast(sender, balance, total, active, held) ==
    IF balance = 0 THEN "NoBalance"
    ELSE IF total < balance \/ active <= 1 THEN "Panic(0x11)"
    ELSE IF held < balance \/ ~AcceptsETH(sender) THEN "TransferFailed"
    ELSE ""

\* The revert reason of withdraw/leave ("" when it goes through): no
\* balance, the checked subtractions, and the transfer to the sender
withdrawError(sender, balance, total, active, held) ==
    IF balance = 0 THEN "NoBalance"
    ELSE IF total < balance \/ active = 0 THEN "Panic(0x11)"
    ELSE IF held < balance \/ ~AcceptsETH(sender) THEN "TransferFailed"
    ELSE ""

\* Mutant of withdrawTotal: the total drops by one wei
withdrawTotalByOne(total, balance) == total - 1

\* totalBalance after a withdrawal of balance
withdrawTotal(total, balance) == total - balance

\* Mutant of withdrawValue: one wei stays behind
withdrawValuePartial(balance) == balance - 1

\* The value of the call that pays the sender
withdrawValue(balance) == balance

\* The events of withdraw/leave
withdrawEvents(e, sender, balance) ==
    IF e = EXT_DEPOSIT
    THEN <<[name |-> "Withdrawn", account |-> sender, amount |-> balance]>>
    ELSE <<[name |-> "Left", account |-> sender, amount |-> balance]>>

\* A transaction that reverted: nothing is emitted, nothing is paid
Reverted(op, sender, value, error) ==
    [op |-> op, sender |-> sender, value |-> value, error |-> error,
     events |-> <<>>, paid |-> 0]

\* The balance of one address does not exceed MaxBalance in the model
MaxBalance == 2

\* msg.value of the calls, in wei
Amounts == {0, 1, 2}

\* The Manifold creator core and the deployed renderer
CORE == "core"
RENDERER == "renderer"

\* The token ids mintExtension may return
CoreTokenIds == {2, 7}

\* Mutant of receiveError: receive() takes the ETH
receiveAccepts == ""

\* receive() and fallback(): the revert reason
receiveError == "DirectTransferNotAllowed"
fallbackError == "DirectTransferNotAllowed"

\* adminRequired, then the checks of initialize
initializeError(caller, isInitialized, _core) ==
    IF caller # OWNER THEN "AdminControl: Must be owner or admin"
    ELSE IF isInitialized THEN "AlreadyInitialized"
    ELSE IF _core = ZERO_ADDRESS THEN "InvalidCore"
    ELSE ""

\* adminRequired
setRendererError(caller) ==
    IF caller # OWNER THEN "AdminControl: Must be owner or admin" ELSE ""

\* type(I).interfaceId of the interfaces that supportsInterface names:
\* ICreatorExtensionTokenURI, ISculpture (title, authors, addresses, urls,
\* text), and IAdminControl and IERC165 through AdminControl
ICreatorExtensionTokenURI_ID == "0xe9dc6375"
ISculpture_ID == "0x8b53e4f8"
IAdminControl_ID == "0x553e757e"
IERC165_ID == "0x01ffc9a7"

\* supportsInterface(interfaceId)
supportsInterface(e, interfaceId) ==
    \/ interfaceId = ICreatorExtensionTokenURI_ID
    \/ (e = EXT_ENTER /\ interfaceId = ISculpture_ID)
    \/ interfaceId = IAdminControl_ID
    \/ interfaceId = IERC165_ID

\* What the ledger calls leave alone
rendererVars ==
    <<rev, count, svgVars, base64Vars, formatVars, metadataVars, uriVars,
      solidThreshold>>

\* deposit() / enter()
Deposit ==
    /\ pc = "idle"
    /\ \E sender \in actors, value \in Amounts :
        LET balance == balanceOf[sender]
            error == depositError(ext, balance, value)
        IN  /\ balance + value <= MaxBalance
            /\ IF error # ""
               THEN /\ receipt' = Reverted(DepositOp(ext), sender, value, error)
                    /\ UNCHANGED ledgerVars
               ELSE /\ balanceOf' = [balanceOf EXCEPT ![sender] = balance + value]
                    /\ extTotalBalance' = extTotalBalance + value
                    /\ activeDepositors' = depositCount(activeDepositors, balance)
                    /\ ethHeld' = ethHeld + value
                    /\ receipt' =
                         [op |-> DepositOp(ext), sender |-> sender,
                          value |-> value, error |-> "",
                          events |-> depositEvents(ext, sender, value,
                                                   balance + value),
                          paid |-> 0]
    /\ UNCHANGED <<pc, rendererVars, ext, adminVars, actors, frame>>

\* withdraw() / leave()
Withdraw ==
    /\ pc = "idle"
    /\ \E sender \in actors :
        LET balance == balanceOf[sender]
            error == withdrawError(sender, balance, extTotalBalance,
                                   activeDepositors, ethHeld)
        IN  IF error # ""
            THEN /\ receipt' = Reverted(WithdrawOp(ext), sender, 0, error)
                 /\ UNCHANGED ledgerVars
            ELSE /\ balanceOf' = [balanceOf EXCEPT ![sender] = 0]
                 /\ extTotalBalance' = withdrawTotal(extTotalBalance, balance)
                 /\ activeDepositors' = activeDepositors - 1
                 /\ ethHeld' = ethHeld - withdrawValue(balance)
                 /\ receipt' =
                      [op |-> WithdrawOp(ext), sender |-> sender, value |-> 0,
                       error |-> "",
                       events |-> withdrawEvents(ext, sender, balance),
                       paid |-> withdrawValue(balance)]
    /\ UNCHANGED <<pc, rendererVars, ext, adminVars, actors, frame>>

\* A plain transfer of ETH to the extension: receive()
DirectTransfer ==
    /\ pc = "idle"
    /\ \E sender \in actors, value \in Amounts :
        IF receiveError # ""
        THEN /\ receipt' = Reverted("receive", sender, value, receiveError)
             /\ ethHeld' = ethHeld
        ELSE /\ receipt' = [op |-> "receive", sender |-> sender,
                            value |-> value, error |-> "", events |-> <<>>,
                            paid |-> 0]
             /\ ethHeld' = ethHeld + value
    /\ UNCHANGED <<pc, rendererVars, ext, adminVars, actors, frame,
                   balanceOf, extTotalBalance, activeDepositors>>

\* A call to a function the extension does not have: fallback()
UnknownCall ==
    /\ pc = "idle"
    /\ \E sender \in actors, value \in Amounts :
        IF fallbackError # ""
        THEN /\ receipt' = Reverted("fallback", sender, value, fallbackError)
             /\ ethHeld' = ethHeld
        ELSE /\ receipt' = [op |-> "fallback", sender |-> sender,
                            value |-> value, error |-> "", events |-> <<>>,
                            paid |-> 0]
             /\ ethHeld' = ethHeld + value
    /\ UNCHANGED <<pc, rendererVars, ext, adminVars, actors, frame,
                   balanceOf, extTotalBalance, activeDepositors>>

\* initialize(_core): the core mints the token and returns its id
Initialize ==
    /\ pc = "idle"
    /\ \E caller \in actors, _core \in {ZERO_ADDRESS, CORE} :
        LET error == initializeError(caller, initialized, _core)
        IN  IF error # ""
            THEN /\ receipt' = Reverted("initialize", caller, 0, error)
                 /\ UNCHANGED <<initialized, core, tokenId>>
            ELSE /\ core' = _core
                 /\ initialized' = TRUE
                 /\ tokenId' \in CoreTokenIds
                 /\ receipt' =
                      [op |-> "initialize", sender |-> caller, value |-> 0,
                       error |-> "",
                       events |-> <<[name |-> "Initialized", core |-> _core,
                                     tokenId |-> tokenId']>>,
                       paid |-> 0]
    /\ UNCHANGED <<pc, rendererVars, ext, ledgerVars, renderer, actors,
                   frame>>

\* setRenderer(_renderer)
SetRenderer ==
    /\ pc = "idle"
    /\ \E caller \in actors, _renderer \in {ZERO_ADDRESS, RENDERER} :
        LET error == setRendererError(caller)
        IN  IF error # ""
            THEN /\ receipt' = Reverted("setRenderer", caller, 0, error)
                 /\ renderer' = renderer
            ELSE /\ renderer' = _renderer
                 /\ receipt' =
                      [op |-> "setRenderer", sender |-> caller, value |-> 0,
                       error |-> "",
                       events |-> <<[name |-> "RendererUpdated",
                                     newRenderer |-> _renderer]>>,
                       paid |-> 0]
    /\ UNCHANGED <<pc, rendererVars, ext, ledgerVars, initialized, core,
                   tokenId, actors, frame>>

\* SpecLedger: any account calls the extension, in any order

\* An extension revision and its renderer as deployed, nobody present
Constructed ==
    /\ ext \in ExtRevisions
    /\ rev = RendererOf(ext)
    /\ solidThreshold = 0
    /\ count = 0
    /\ pc = "idle"
    /\ SvgIdle
    /\ Base64Idle
    /\ FormatIdle
    /\ Deployed
    /\ UriIdle
    /\ receipt = NoReceipt
    /\ LedgerIdle
    /\ AdminIdle
    /\ frame = NoFrame

InitLedger ==
    /\ Constructed
    /\ actors = Addresses

NextLedger ==
    \/ Deposit
    \/ Withdraw
    \/ DirectTransfer
    \/ UnknownCall
    \/ Initialize
    \/ SetRenderer

SpecLedger == InitLedger /\ [][NextLedger]_vars

---------------------------------------------------------------------------
(* HereForNowExtension: what it renders. svg() and tokenURI(core, tokenId) *)
(* are views that call the renderer with the counter (and, in the deposit  *)
(* revision, the total) of the ledger.                                     *)

\* Mutant of svgCount: the renderer is given the total
svgCountTotal(active, total) == total

\* The argument of generateSVG in svg()
svgCount(active, total) == active

\* Mutant of tokenURICount: the renderer is given the counter plus one
tokenURICountNext(active, total) == active + 1

\* The first argument of renderer.tokenURI in tokenURI()
tokenURICount(active, total) == active

\* A uint256 of wei as the three limbs of _formatEther
ToWei(x) == <<0, x \div LIMB, x % LIMB>>

\* The revert reason of svg()
svgError(_renderer) ==
    IF _renderer = ZERO_ADDRESS THEN "RendererNotSet" ELSE ""

\* The revert reason of tokenURI(_core, _tokenId)
tokenURIError(isInit, _core, _tokenId, core_, tokenId_, renderer_) ==
    IF ~isInit THEN "NotInitialized"
    ELSE IF _core # core_ THEN "InvalidCore"
    ELSE IF _tokenId # tokenId_ THEN "InvalidTokenId"
    ELSE IF renderer_ = ZERO_ADDRESS THEN "RendererNotSet"
    ELSE ""

\* A view that returned
Returned(op, sender) ==
    [op |-> op, sender |-> sender, value |-> 0, error |-> "",
     events |-> <<>>, paid |-> 0]

\* svg(): the renderer's generateSVG for the counter
Svg ==
    /\ pc = "idle"
    /\ pc' = "done"
    /\ \E caller \in actors :
        LET error == svgError(renderer)
            n == svgCount(activeDepositors, extTotalBalance)
            buf == generateSVGBuffer(rev, n)
        IN  IF error # ""
            THEN /\ receipt' = Reverted("svg", caller, 0, error)
                 /\ UNCHANGED <<count, svgVars>>
            ELSE /\ count' = n
                 /\ svg' = buf.data
                 /\ bufferEnd' = buf.end
                 /\ ys' = lineYs(rev, n)
                 /\ bufferSize' = BufferSize(n)
                 /\ receipt' = Returned("svg", caller)
    /\ UNCHANGED <<rev, base64Vars, formatVars, metadataVars, uriVars,
                   solidThreshold, extVars>>

\* tokenURI(_core, _tokenId), as the core calls it for a token and as any
\* other caller may
ExtTokenURI ==
    /\ pc = "idle"
    /\ pc' = "done"
    /\ \E _core \in {CORE, "alice"}, _tokenId \in CoreTokenIds :
        LET error == tokenURIError(initialized, _core, _tokenId, core,
                                   tokenId, renderer)
            n == tokenURICount(activeDepositors, extTotalBalance)
            balance == IF rev = REV_LINEAR THEN ToWei(extTotalBalance)
                       ELSE <<0, 0, 0>>
        IN  IF error # ""
            THEN /\ receipt' = Reverted("tokenURI", _core, 0, error)
                 /\ UNCHANGED <<count, uriVars>>
            ELSE /\ count' = n
                 /\ totalBalance' = balance
                 /\ \E afterSvg \in UriMemAfterSamples,
                        afterJson \in UriMemAfterSamples :
                       uri' = tokenURI(rev, name, description, n, balance,
                                       afterSvg, afterJson)
                 /\ receipt' = Returned("tokenURI", _core)
    /\ UNCHANGED <<rev, svgVars, base64Vars, formatVars, metadataVars,
                   solidThreshold, extVars>>

\* SpecRender: the owner and one more account use the extension, the owner
\* may change the renderer's metadata, then a view is called
RenderActors == {OWNER, "alice"}

InitRender ==
    /\ Constructed
    /\ actors = RenderActors

NextRender ==
    \/ Deposit
    \/ Withdraw
    \/ Initialize
    \/ SetRenderer
    \/ Svg
    \/ ExtTokenURI

SpecRender == InitRender /\ [][NextRender]_vars

\* SpecView: as SpecRender with svg() as the only view, and with the owner
\* changing the renderer's metadata
NextView ==
    \/ Deposit
    \/ Withdraw
    \/ Initialize
    \/ SetRenderer
    \/ SetMetadata
    \/ Svg

SpecView == InitRender /\ [][NextView]_vars

---------------------------------------------------------------------------
(* HereForNowExtension: withdraw/leave step by step. The call that pays    *)
(* the sender runs the sender's code when the sender is a contract, and    *)
(* that code may call the extension again before it returns or reverts.    *)

\* A withdraw/leave is between its writes and the return of its transfer
InFlight == frame # NoFrame

\* Mutant of nonReentrantError: the functions carry no guard
nonReentrantErrorOff(entered) == ""

\* nonReentrant (ReentrancyGuard): the revert reason of a call made while a
\* guarded function runs
nonReentrantError(entered) ==
    IF entered THEN "ReentrancyGuard: reentrant call" ELSE ""

\* The accounts with code: bob's receive returns whatever its calls did,
\* the receive of "rejector" reverts
Contracts == {"bob", "rejector"}

\* withdraw()/leave() up to msg.sender.call: the check and the three writes
WithdrawBegin ==
    /\ pc = "idle"
    /\ ~InFlight
    /\ \E sender \in actors :
        LET balance == balanceOf[sender]
            error == withdrawError(sender, balance, extTotalBalance,
                                   activeDepositors, ethHeld)
        IN  IF error \in {"NoBalance", "Panic(0x11)"}
            THEN /\ receipt' = Reverted(WithdrawOp(ext), sender, 0, error)
                 /\ UNCHANGED <<pc, ledgerVars, frame>>
            ELSE /\ balanceOf' = [balanceOf EXCEPT ![sender] = 0]
                 /\ extTotalBalance' = withdrawTotal(extTotalBalance, balance)
                 /\ activeDepositors' = activeDepositors - 1
                 /\ ethHeld' = ethHeld - withdrawValue(balance)
                 /\ frame' = [sender |-> sender, balance |-> balance,
                              saved |-> ledgerVars]
                 /\ pc' = "transfer"
                 /\ receipt' = receipt
    /\ UNCHANGED <<rendererVars, ext, adminVars, actors>>

\* The code of the recipient calls deposit/enter or withdraw/leave while
\* the transfer is in flight
Reenter ==
    /\ pc = "transfer"
    /\ InFlight
    /\ frame.sender \in Contracts
    /\ \E value \in Amounts, withdraws \in BOOLEAN :
        LET sender == frame.sender
            balance == balanceOf[sender]
            guard == nonReentrantError(InFlight)
            error == IF guard # "" THEN guard
                     ELSE IF withdraws
                     THEN withdrawError(sender, balance, extTotalBalance,
                                        activeDepositors, ethHeld)
                     ELSE depositError(ext, balance, value)
            op == IF withdraws THEN WithdrawOp(ext) ELSE DepositOp(ext)
            sent == IF withdraws THEN 0 ELSE value
        IN  /\ withdraws => value = 0
            /\ balance + value <= MaxBalance
            /\ IF error # ""
               THEN /\ receipt' = Reverted(op, sender, sent, error)
                    /\ UNCHANGED ledgerVars
               ELSE IF withdraws
               THEN /\ balanceOf' = [balanceOf EXCEPT ![sender] = 0]
                    /\ extTotalBalance' =
                         withdrawTotal(extTotalBalance, balance)
                    /\ activeDepositors' = activeDepositors - 1
                    /\ ethHeld' = ethHeld - withdrawValue(balance)
                    /\ receipt' =
                         [op |-> op, sender |-> sender, value |-> 0,
                          error |-> "",
                          events |-> withdrawEvents(ext, sender, balance),
                          paid |-> withdrawValue(balance)]
               ELSE /\ balanceOf' =
                         [balanceOf EXCEPT ![sender] = balance + value]
                    /\ extTotalBalance' = extTotalBalance + value
                    /\ activeDepositors' =
                         depositCount(activeDepositors, balance)
                    /\ ethHeld' = ethHeld + value
                    /\ receipt' =
                         [op |-> op, sender |-> sender, value |-> value,
                          error |-> "",
                          events |-> depositEvents(ext, sender, value,
                                                   balance + value),
                          paid |-> 0]
    /\ UNCHANGED <<pc, rendererVars, ext, adminVars, actors, frame>>

\* msg.sender.call returns: on failure the call reverts with TransferFailed
\* and storage and ETH are as they were when it began
TransferEnds ==
    /\ pc = "transfer"
    /\ InFlight
    /\ pc' = "idle"
    /\ frame' = NoFrame
    /\ IF AcceptsETH(frame.sender)
       THEN /\ receipt' =
                 [op |-> WithdrawOp(ext), sender |-> frame.sender,
                  value |-> 0, error |-> "",
                  events |-> withdrawEvents(ext, frame.sender, frame.balance),
                  paid |-> withdrawValue(frame.balance)]
            /\ UNCHANGED ledgerVars
       ELSE /\ receipt' = Reverted(WithdrawOp(ext), frame.sender, 0,
                                   "TransferFailed")
            /\ balanceOf' = frame.saved[1]
            /\ extTotalBalance' = frame.saved[2]
            /\ activeDepositors' = frame.saved[3]
            /\ ethHeld' = frame.saved[4]
    /\ UNCHANGED <<rendererVars, ext, adminVars, actors>>

\* SpecReentrancy: an account without code and the two contracts deposit
\* and withdraw
ReentrancyActors == {"alice"} \cup Contracts

InitReentrancy ==
    /\ Constructed
    /\ actors = ReentrancyActors

NextReentrancy ==
    \/ Deposit
    \/ WithdrawBegin
    \/ Reenter
    \/ TransferEnds

SpecReentrancy == InitReentrancy /\ [][NextReentrancy]_vars

---------------------------------------------------------------------------
(* Reading an SVG string back *)

\* Where the <use> elements of str start
UsePositions(str) ==
    {p \in 1..(Len(str) - 3) : SubSeq(str, p, p + 3) = "<use"}

SetMin(S) == CHOOSE p \in S : \A q \in S : p <= q

SetMax(S) == CHOOSE p \in S : \A q \in S : q <= p

\* The first place at or after from where pat occurs in str (0 if none)
IndexFrom(str, pat, from) ==
    LET last == Len(str) - Len(pat) + 1
        hits == {q \in from..last : SubSeq(str, q, q + Len(pat) - 1) = pat}
    IN  IF hits = {} THEN 0 ELSE SetMin(hits)

\* The element that starts at p, up to and including its "/>"
ElementAt(str, p) ==
    SubSeq(str, p, IndexFrom(str, "/>", p) + 1)

\* The value of attribute y="..." of the element elem
AttrY(elem) ==
    LET at == IndexFrom(elem, " y=\"", 1)
        from == at + 4
        to == IndexFrom(elem, "\"", from)
    IN  ParseDec(SubSeq(elem, from, to - 1))

FirstUse(str) == SetMin(UsePositions(str))

LastUse(str) == SetMax(UsePositions(str))

---------------------------------------------------------------------------
(* Claims about generateSVG *)

\* The solid rectangle as the claim describes it
ClaimSolidRect ==
    "<rect x=\"300\" y=\"200\" width=\"400\" height=\"600\""

\* C1: in the thresholded revision, generateSVG(n) holds exactly n+2 <use
\* elements and no solid rectangle when n+2 < SOLID_THRESHOLD, and no <use
\* element and exactly one solid rectangle when n+2 >= SOLID_THRESHOLD.
C1_LineCountAndHardSwitch ==
    (pc = "done" /\ rev = REV_QUADRATIC) =>
        IF count + 2 < SOLID_THRESHOLD
          THEN /\ Occurrences(svg, "<use") = count + 2
               /\ Occurrences(svg, ClaimSolidRect) = 0
        ELSE /\ Occurrences(svg, "<use") = 0
             /\ Occurrences(svg, ClaimSolidRect) = 1

\* C1 witness: the call with exactly SOLID_THRESHOLD lines returned the
\* rectangle
C1_Witness ==
    /\ pc = "done" /\ rev = REV_QUADRATIC
    /\ count + 2 = SOLID_THRESHOLD
    /\ Occurrences(svg, ClaimSolidRect) = 1

\* Whether the revision renders the count + 2 lines one by one
RendersLines ==
    rev = REV_LINEAR \/ count + 2 < SOLID_THRESHOLD

\* C2: whenever the lines are rendered one by one, the first <use element
\* of the returned string has y = 200 and the last has y = 799, under both
\* laws; generateSVG(0) holds exactly two <use elements.
C2_BoundaryCoordinates ==
    (pc = "done" /\ RendersLines) =>
        /\ UsePositions(svg) # {}
        /\ AttrY(ElementAt(svg, FirstUse(svg))) = 200
        /\ AttrY(ElementAt(svg, LastUse(svg))) = 799
        /\ (count = 0 => Cardinality(UsePositions(svg)) = 2)

\* C2 witness: a call whose lines came from the loop, not from the two
\* literals
C2_Witness ==
    /\ pc = "done" /\ RendersLines /\ count >= 1
    /\ rev = REV_QUADRATIC
    /\ AttrY(ElementAt(svg, LastUse(svg))) = 799

\* C3: for every totalLines >= 2, the y values written, in index order, are
\* non-decreasing and lie in 200..799, under both laws.
C3_Monotone ==
    pc = "done" =>
        /\ \A k \in 1..(Len(ys) - 1) : ys[k] <= ys[k + 1]
        /\ \A k \in 1..Len(ys) : 200 <= ys[k] /\ ys[k] <= 799
        /\ (RendersLines => Len(ys) = count + 2)

\* C3 witness: a long run of lines was placed
C3_Witness ==
    /\ pc = "done"
    /\ Len(ys) = SOLID_THRESHOLD - 1
    /\ ys[1] < ys[Len(ys)]

\* C4: generateSVG never writes more bytes than the bufferSize it
\* allocated: no write ends beyond the buffer and the length stored is at
\* most bufferSize.
C4_WithinBuffer ==
    pc = "done" => (Len(svg) <= bufferSize /\ bufferEnd <= bufferSize)

---------------------------------------------------------------------------
(* A standard base64 decoder and the RFC 4648 encoding *)

RFCAlphabet ==
    "ABCDEFGHIJKLMNOPQRSTUVWXYZabcdefghijklmnopqrstuvwxyz0123456789+/"

AlphabetChars == {CharAt(RFCAlphabet, i) : i \in 1..64}

\* The 6-bit value of a character of the alphabet
SextetOf ==
    [c \in AlphabetChars |-> (CHOOSE i \in 1..64 : CharAt(RFCAlphabet, i) = c) - 1]

\* Number of '=' that end str (at most two count as padding)
PadCount(str) ==
    IF EndsWith(str, "==") THEN 2
    ELSE IF EndsWith(str, "=") THEN 1
    ELSE 0

\* str is base64 text: whole quadruples of the alphabet, '=' only as the
\* last one or two characters
IsBase64(str) ==
    /\ Len(str) % 4 = 0
    /\ \A i \in 1..(Len(str) - PadCount(str)) : CharAt(str, i) \in AlphabetChars

\* The 24 bits of quadruple q (from 0) of str, '=' read as 0
Quad(str, q) ==
    LET v(j) == IF CharAt(str, 4 * q + j) = "=" THEN 0
                ELSE SextetOf[CharAt(str, 4 * q + j)]
    IN  v(1) * 262144 + v(2) * 4096 + v(3) * 64 + v(4)

\* The bytes a standard decoder returns for base64 text str: the bits
\* left over in the last character before the padding are dropped
Base64Decode(str) ==
    LET outLen == 3 * (Len(str) \div 4) - PadCount(str)
    IN  [k \in 1..outLen |->
            LET q == (k - 1) \div 3
                j == (k - 1) % 3
            IN  (Quad(str, q) \div (256 ^ (2 - j))) % 256]

\* Bit k (from 0, most significant first) of the bytes, 0 past their end
BitOf(bytes, k) ==
    IF k \div 8 < Len(bytes)
      THEN (bytes[(k \div 8) + 1] \div (2 ^ (7 - (k % 8)))) % 2
    ELSE 0

\* RFC 4648, section 4: the bits in groups of six, the last group filled
\* with zero bits, then '=' up to a multiple of four characters
RFC4648Encode(bytes) ==
    LET nChars == CeilDiv(8 * Len(bytes), 6)
        sextet(j) == BitOf(bytes, 6 * j) * 32 + BitOf(bytes, 6 * j + 1) * 16
                     + BitOf(bytes, 6 * j + 2) * 8 + BitOf(bytes, 6 * j + 3) * 4
                     + BitOf(bytes, 6 * j + 4) * 2 + BitOf(bytes, 6 * j + 5)
        chars == [j \in 1..nChars |-> CharAt(RFCAlphabet, sextet(j - 1) + 1)]
        pad == (4 - (nChars % 4)) % 4
    IN  Flatten(chars, 1, nChars) \o SubSeq("===", 1, pad)

---------------------------------------------------------------------------
(* Claims about Base64.encode *)

\* C5: for every byte sequence, of length 0 and of every length mod 3, a
\* standard base64 decoder applied to Base64.encode of it returns exactly
\* the sequence.
C5_RoundTrip ==
    pc = "done" => (IsBase64(encoded) /\ Base64Decode(encoded) = data)

\* C5 witness: an input of length 1 mod 3, followed in memory by non-zero
\* bytes, was encoded and decodes to itself
C5_Witness ==
    /\ pc = "done"
    /\ Len(data) % 3 = 1 /\ Len(data) > 3
    /\ memAfter = <<255, 255>>
    /\ Base64Decode(encoded) = data

\* C6: for an input of n bytes Base64.encode returns 4 * ceil(n / 3)
\* characters, ending with "==" when n mod 3 = 1, with exactly one "=" when
\* n mod 3 = 2, with none when n mod 3 = 0; the empty input gives "".
C6_LengthAndPadding ==
    pc = "done" =>
        /\ Len(encoded) = 4 * CeilDiv(Len(data), 3)
        /\ (Len(data) % 3 = 1 => PadCount(encoded) = 2)
        /\ (Len(data) % 3 = 2 => PadCount(encoded) = 1)
        /\ (Len(data) % 3 = 0 => PadCount(encoded) = 0)
        /\ Occurrences(encoded, "=") = PadCount(encoded)
        /\ (Len(data) = 0 => encoded = "")

\* C6 witness: an input of length 2 mod 3 was encoded with one "="
C6_Witness ==
    /\ pc = "done"
    /\ Len(data) = 2
    /\ Len(encoded) = 4
    /\ PadCount(encoded) = 1

\* C7: for every byte sequence Base64.encode returns exactly the RFC 4648
\* encoding, with zero unused bits in the last character before the
\* padding, whatever bytes lie in memory after the input.
C7_MatchesRFC4648 ==
    pc = "done" => encoded = RFC4648Encode(data)

---------------------------------------------------------------------------
(* Claims about _formatEther *)

\* The text before the first "." of str, and the text after it
BeforeDot(str) == SubSeq(str, 1, IndexFrom(str, ".", 1) - 1)
AfterDot(str) == SubSeq(str, IndexFrom(str, ".", 1) + 1, Len(str))

\* C8: _formatEther(a) is "<whole>.<frac> ETH" with whole = a div 10^18 in
\* decimal without leading zeros and frac = (a mod 10^18) div 10^14 as
\* exactly four digits: read back, whole * 10^4 + frac is a div 10^14, so
\* the digits below 10^14 are cut, never rounded.
C8_FormatEther ==
    pc = "done" =>
        LET whole == BeforeDot(formatted)
            rest == AfterDot(formatted)
            frac == SubSeq(rest, 1, 4)
        IN  /\ Occurrences(formatted, ".") = 1
            /\ IsDecimal(whole)
            /\ (Len(whole) > 1 => CharAt(whole, 1) # "0")
            /\ Len(rest) = 8
            /\ IsDecimal(frac)
            /\ SubSeq(rest, 5, 8) = " ETH"
            /\ ParseDec(frac) < 10000
            /\ ParseDec(whole) * 10000 + ParseDec(frac) = weiAmount[1]
            /\ (weiAmount = <<19999, 9999999, 9999999>> => formatted = "1.9999 ETH")
            /\ (weiAmount = <<0, 0, 0>> => formatted = "0.0000 ETH")
            /\ (weiAmount = <<10000, 0, 0>> => formatted = "1.0000 ETH")

\* C8 witness: 1_999_999_999_999_999_999 wei was formatted as 1.9999 ETH
C8_Witness ==
    /\ pc = "done"
    /\ weiAmount = <<19999, 9999999, 9999999>>
    /\ formatted = "1.9999 ETH"


---------------------------------------------------------------------------
(* Reading a tokenURI back: bytes to text, and a reader of JSON text *)

\* The character of a byte (a byte with no character in the model is "?";
\* IsText tells whether there is one)
CodeChar(b) ==
    IF b = 9 THEN "\t"
    ELSE IF b = 10 THEN "\n"
    ELSE IF b = 13 THEN "\r"
    ELSE IF b \in 32..95 THEN CharAt(ASCII_32_95, b - 31)
    ELSE IF b \in 97..126 THEN CharAt(ASCII_97_126, b - 96)
    ELSE "?"

IsText(bs) ==
    \A i \in 1..Len(bs) : bs[i] \in {9, 10, 13} \cup (32..95) \cup (97..126)

StringOf(bs) == Flatten([i \in 1..Len(bs) |-> CodeChar(bs[i])], 1, Len(bs))

\* pat occurs in str at pos
HasAt(str, pat, pos) ==
    /\ pos >= 1
    /\ pos + Len(pat) - 1 <= Len(str)
    /\ SubSeq(str, pos, pos + Len(pat) - 1) = pat

\* Number of consecutive backslashes of str that end at i
EscapeRun(str, i) ==
    IF i < 1 \/ CharAt(str, i) # "\\" THEN 0
    ELSE i - SetMax({j \in 0..i : j = 0 \/ CharAt(str, j) # "\\"})

\* str[i] follows a backslash that escapes it
IsEscaped(str, i) == EscapeRun(str, i - 1) % 2 = 1

\* The closing quote of the JSON string whose first character is at from
\* (0 if the string is not closed)
JsonStringClose(str, from) ==
    LET closes == {q \in from..Len(str) :
                      CharAt(str, q) = "\"" /\ ~IsEscaped(str, q)}
    IN  IF from < 1 \/ closes = {} THEN 0 ELSE SetMin(closes)

\* raw may stand between the quotes of a JSON string (RFC 8259, section 7):
\* no bare control character or quote, and only the escapes of JSON
JsonStringValid(raw) ==
    \A i \in 1..Len(raw) :
        /\ CharAt(raw, i) \notin {"\t", "\n", "\r"}
        /\ IF IsEscaped(raw, i)
           THEN CharAt(raw, i) \in {"\"", "\\", "/", "b", "f", "n", "r", "t", "u"}
           ELSE /\ CharAt(raw, i) # "\""
                /\ (CharAt(raw, i) = "\\" => i < Len(raw))

\* The string that raw stands for
JsonUnescape(raw) ==
    LET char(i) ==
            IF IsEscaped(raw, i)
            THEN IF CharAt(raw, i) = "n" THEN "\n"
                 ELSE IF CharAt(raw, i) = "t" THEN "\t"
                 ELSE IF CharAt(raw, i) = "r" THEN "\r"
                 ELSE IF CharAt(raw, i) \in {"\"", "\\", "/"} THEN CharAt(raw, i)
                 ELSE "?"
            ELSE IF CharAt(raw, i) = "\\" THEN ""
            ELSE CharAt(raw, i)
    IN  Flatten([i \in 1..Len(raw) |-> char(i)], 1, Len(raw))

\* What follows the count in the attributes: the end of the document, or
\* one more attribute with a string value and then the end
JsonAttributesEnd(rest) ==
    LET sep1 == "},{\"trait_type\":\""
        traitFrom == Len(sep1) + 1
        traitTo == JsonStringClose(rest, traitFrom)
        sep2 == "\",\"value\":\""
        valueFrom == traitTo + Len(sep2)
        valueTo == JsonStringClose(rest, valueFrom)
    IN  \/ rest = "}]}"
        \/ /\ HasAt(rest, sep1, 1)
           /\ traitTo > 0
           /\ JsonStringValid(SubSeq(rest, traitFrom, traitTo - 1))
           /\ HasAt(rest, sep2, traitTo)
           /\ valueTo > 0
           /\ JsonStringValid(SubSeq(rest, valueFrom, valueTo - 1))
           /\ SubSeq(rest, valueTo, Len(rest)) = "\"}]}"

\* Reads the JSON object {"name":s,"description":s,"image":s,
\* "attributes":[{"trait_type":s,"value":number}, ...]}: whether json is
\* that well-formed JSON text, and the values of its members
ReadMetadata(json) ==
    LET sep1 == "{\"name\":\""
        nameFrom == Len(sep1) + 1
        nameTo == JsonStringClose(json, nameFrom)
        sep2 == "\",\"description\":\""
        descFrom == nameTo + Len(sep2)
        descTo == JsonStringClose(json, descFrom)
        sep3 == "\",\"image\":\""
        imageFrom == descTo + Len(sep3)
        imageTo == JsonStringClose(json, imageFrom)
        sep4 == "\",\"attributes\":[{\"trait_type\":\""
        traitFrom == imageTo + Len(sep4)
        traitTo == JsonStringClose(json, traitFrom)
        sep5 == "\",\"value\":"
        valueFrom == traitTo + Len(sep5)
        valueTo == IndexFrom(json, "}", valueFrom) - 1
        wellFormed ==
            /\ HasAt(json, sep1, 1)
            /\ nameTo > 0
            /\ JsonStringValid(SubSeq(json, nameFrom, nameTo - 1))
            /\ HasAt(json, sep2, nameTo)
            /\ descTo > 0
            /\ JsonStringValid(SubSeq(json, descFrom, descTo - 1))
            /\ HasAt(json, sep3, descTo)
            /\ imageTo > 0
            /\ JsonStringValid(SubSeq(json, imageFrom, imageTo - 1))
            /\ HasAt(json, sep4, imageTo)
            /\ traitTo > 0
            /\ JsonStringValid(SubSeq(json, traitFrom, traitTo - 1))
            /\ HasAt(json, sep5, traitTo)
            /\ valueTo >= valueFrom
            /\ IsDecimal(SubSeq(json, valueFrom, valueTo))
            /\ JsonAttributesEnd(SubSeq(json, valueTo + 1, Len(json)))
    IN  IF wellFormed
        THEN [wellFormed |-> TRUE,
              name |-> JsonUnescape(SubSeq(json, nameFrom, nameTo - 1)),
              description |-> JsonUnescape(SubSeq(json, descFrom, descTo - 1)),
              image |-> JsonUnescape(SubSeq(json, imageFrom, imageTo - 1)),
              trait_type |-> JsonUnescape(SubSeq(json, traitFrom, traitTo - 1)),
              value |-> ParseDec(SubSeq(json, valueFrom, valueTo))]
        ELSE [wellFormed |-> FALSE]

\* A string that stands for itself between the quotes of a JSON string
NeedsNoEscape(str) ==
    \A i \in 1..Len(str) : CharAt(str, i) \notin {"\"", "\\", "\t", "\n", "\r"}

---------------------------------------------------------------------------
(* Claims about tokenURI *)

URI_PREFIX == "data:application/json;base64,"

IMAGE_PREFIX == "data:image/svg+xml;base64,"

\* The returned tokenURI after its prefix
UriPayload == SubSeq(uri, Len(URI_PREFIX) + 1, Len(uri))

\* The text the payload decodes to
UriJson == StringOf(Base64Decode(UriPayload))

\* The text up to the image member, as name and description stand in it
UriHead ==
    "{\"name\":\"" \o name \o "\",\"description\":\"" \o description
    \o "\",\"image\":\""

\* The image member: from the end of the head to the next quote
UriImage(json) ==
    SubSeq(json, Len(UriHead) + 1, IndexFrom(json, "\"", Len(UriHead) + 1) - 1)

\* The base64 text of the image member
UriInner(json) ==
    SubSeq(UriImage(json), Len(IMAGE_PREFIX) + 1, Len(UriImage(json)))

\* The text after the image member
UriTail(json) ==
    SubSeq(json, Len(UriHead) + Len(UriImage(json)) + 1, Len(json))

\* The digits of the first attribute's value
UriCountText(tail) ==
    LET from == IndexFrom(tail, "\"value\":", 1) + 8
    IN  SubSeq(tail, from, IndexFrom(tail, "}", from) - 1)

\* What C9 says of the tokenURI apart from the line elements: the URI is
\* the JSON prefix and base64 text; that text decodes to the name and the
\* description followed by an image member that is the SVG prefix and the
\* base64 of exactly generateSVG(count), and by a count attribute of value
\* count; the image decodes to text that starts with "<svg"; and when name
\* and description need no escaping, the decoded text reads as a JSON
\* object with these values as its members.
UriDecodes ==
    LET json == UriJson
        image == UriImage(json)
        inner == UriInner(json)
        tail == UriTail(json)
        doc == ReadMetadata(json)
    IN  /\ StartsWith(uri, URI_PREFIX)
        /\ IsBase64(UriPayload)
        /\ IsText(Base64Decode(UriPayload))
        /\ StartsWith(json, UriHead)
        /\ StartsWith(image, IMAGE_PREFIX)
        /\ IsBase64(inner)
        /\ Base64Decode(inner) = StringBytes(generateSVG(rev, count))
        /\ StartsWith(StringOf(Base64Decode(inner)), "<svg")
        /\ StartsWith(tail, "\",\"attributes\":[{\"trait_type\":\"Present")
        /\ IsDecimal(UriCountText(tail))
        /\ ParseDec(UriCountText(tail)) = count
        /\ (NeedsNoEscape(name) /\ NeedsNoEscape(description)) =>
              /\ doc.wellFormed
              /\ doc.name = name
              /\ doc.description = description
              /\ doc.image = image
              /\ doc.value = count

\* The SVG that the image member of the tokenURI decodes to
UriSvg == StringOf(Base64Decode(UriInner(UriJson)))

C10_MetadataEscaped ==
    pc = "done" /\ uri # "" =>
        LET doc == ReadMetadata(UriJson)
        IN  /\ doc.wellFormed
            /\ doc.name = name
            /\ doc.description = description

---------------------------------------------------------------------------
(* Claims about the tunable threshold *)

---------------------------------------------------------------------------
(* Claims about the ledger of HereForNowExtension *)

\* The addresses that are present
Present == {a \in Addresses : balanceOf[a] # 0}

\* The last transaction, by name and outcome
Succeeded(ops) == receipt.op \in ops /\ receipt.error = ""
DepositOps == {"deposit", "enter"}
WithdrawOps == {"withdraw", "leave"}

\* C13: after any sequence of deposit/enter and withdraw/leave calls the
\* counter equals the number of addresses whose balance is non-zero: several
\* deposits from one address count once, and the decrement of withdraw/leave
\* never underflows
C13_ActiveCount ==
    /\ activeDepositors = Cardinality(Present)
    /\ activeDepositors >= 0
    /\ receipt.error # "Panic(0x11)"

\* A second deposit of one address went through and one address is counted
C13_Witness ==
    /\ Succeeded(DepositOps)
    /\ receipt.value = 1
    /\ balanceOf[receipt.sender] = 2
    /\ activeDepositors = 1

RECURSIVE SumBalances(_)
SumBalances(S) ==
    IF S = {} THEN 0
    ELSE LET a == CHOOSE x \in S : TRUE
         IN  balanceOf[a] + SumBalances(S \ {a})

\* C14: after any sequence of deposit/enter and withdraw/leave calls,
\* totalBalance equals the sum of balanceOf over all addresses
C14_TotalIsSum == extTotalBalance = SumBalances(Addresses)

\* One address withdrew while two others with different balances stay
C14_Witness ==
    /\ Succeeded(WithdrawOps)
    /\ receipt.paid = 2
    /\ balanceOf["alice"] = 2
    /\ balanceOf["bob"] = 1
    /\ extTotalBalance = 3

\* C15: a successful withdraw/leave by an address pays it exactly the balance
\* it had recorded, sets its balance to 0, lowers totalBalance by that amount
\* and the counter by exactly 1, and leaves every other balance unchanged;
\* nothing of the balance stays behind
C15_WithdrawAll ==
    [][(receipt'.op \in WithdrawOps /\ receipt'.error = "") =>
          LET a == receipt'.sender
          IN  /\ balanceOf[a] > 0
              /\ receipt'.paid = balanceOf[a]
              /\ ethHeld' = ethHeld - balanceOf[a]
              /\ balanceOf'[a] = 0
              /\ extTotalBalance' = extTotalBalance - balanceOf[a]
              /\ activeDepositors' = activeDepositors - 1
              /\ \A b \in Addresses \ {a} : balanceOf'[b] = balanceOf[b]]_vars

\* An address that deposited twice got both deposits back while another
\* address stays present
C15_Witness ==
    /\ Succeeded(WithdrawOps)
    /\ receipt.sender = "alice"
    /\ receipt.paid = 2
    /\ balanceOf["alice"] = 0
    /\ balanceOf["bob"] = 1
    /\ activeDepositors = 1

\* C16: in every reachable state an address with a non-zero balance whose
\* account accepts ETH can withdraw/leave: the call does not revert, whether
\* or not the extension is initialized or a renderer is set; a withdraw/leave
\* that did revert was by an address without balance or one refusing ETH
C16_WithdrawAlwaysPossible ==
    /\ \A a \in Addresses :
          (balanceOf[a] # 0 /\ AcceptsETH(a)) =>
              withdrawError(a, balanceOf[a], extTotalBalance,
                            activeDepositors, ethHeld) = ""
    /\ (receipt.op \in WithdrawOps /\ receipt.error # "") =>
          (balanceOf[receipt.sender] = 0 \/ ~AcceptsETH(receipt.sender))

\* The last address present left an extension that is not initialized and
\* has no renderer
C16_Witness ==
    /\ Succeeded(WithdrawOps)
    /\ receipt.paid = 2
    /\ ~initialized
    /\ renderer = ZERO_ADDRESS
    /\ activeDepositors = 0

\* C20: a plain transfer of ETH and a call to an unknown function revert
\* with DirectTransferNotAllowed and change nothing, so after any sequence of
\* deposits, withdrawals and attempted direct transfers the ETH held by the
\* extension equals totalBalance
C20_OnlyDeposits ==
    /\ [](ethHeld = extTotalBalance)
    /\ [](receipt.op \in {"receive", "fallback"} =>
             receipt.error = "DirectTransferNotAllowed")
    /\ [][receipt'.op \in {"receive", "fallback"} =>
             UNCHANGED <<ledgerVars, adminVars>>]_vars

\* A transfer of 2 wei bounced off an extension that holds deposits
C20_Witness ==
    /\ receipt.op = "receive"
    /\ receipt.value = 2
    /\ receipt.error = "DirectTransferNotAllowed"
    /\ ethHeld = 3
    /\ extTotalBalance = 3

\* C17: an enter call (with value) by an address that is already present is
\* rejected with AlreadyEntered and leaves its balance, totalBalance and
\* activeParticipants unchanged, so an address enters again only after it
\* has left
C17_EnterRejectsPresent ==
    [][(receipt'.op = "enter" /\ receipt'.value > 0
            /\ balanceOf[receipt'.sender] # 0) =>
          /\ receipt'.error = "AlreadyEntered"
          /\ UNCHANGED ledgerVars]_vars

\* The interface id of EIP-4906
IERC4906_ID == "0x49064906"

\* The events of the last transaction include MetadataUpdate(token)
EmitsMetadataUpdate(token) ==
    \E i \in 1..Len(receipt.events) :
        /\ receipt.events[i].name = "MetadataUpdate"
        /\ receipt.events[i].tokenId = token

\* C18: every successful enter and every successful leave emits
\* MetadataUpdate(tokenId) for the extension's token, and the extension
\* reports support for interface id 0x49064906
C18_MetadataUpdate ==
    /\ Succeeded({"enter", "leave"}) => EmitsMetadataUpdate(tokenId)
    /\ ext = EXT_ENTER => supportsInterface(ext, IERC4906_ID)

---------------------------------------------------------------------------
(* Claims about what the extension renders *)

\* C12: the SVG depends on the presence count only: whenever svg() returns,
\* the string is the one generateSVG gives for the number of addresses with
\* a non-zero balance, whatever the identities of the present addresses,
\* their amounts, the total balance or the stored metadata; so any two
\* states with the same number return byte-identical strings
C12_SvgOfCountOnly ==
    (pc = "done" /\ Succeeded({"svg"})) =>
        /\ svg = generateSVG(rev, Cardinality(Present))
        /\ \A k \in 0..Cardinality(Addresses) :
              Cardinality(Present) = k =>
                  Occurrences(svg, "<use") = k + 2

\* svg() returned for one present address that holds 2 wei, after the owner
\* changed the metadata
C12_Witness ==
    /\ pc = "done"
    /\ Succeeded({"svg"})
    /\ Present = {"alice"}
    /\ balanceOf["alice"] = 2
    /\ name = "New Name"
    /\ Occurrences(svg, "<use") = 3

\* C19: after any sequence of deposit/enter and withdraw/leave calls,
\* svg() has exactly (number of addresses with non-zero balance) + 2 line
\* elements, and the count attribute of the tokenURI that the core obtains
\* for the token equals that number
C19_RendersLedger ==
    /\ (pc = "done" /\ Succeeded({"svg"})) =>
          Occurrences(svg, "<use") = Cardinality(Present) + 2
    /\ (pc = "done" /\ Succeeded({"tokenURI"})) =>
          LET text == UriCountText(UriTail(UriJson))
          IN  /\ receipt.sender = CORE
              /\ IsDecimal(text)
              /\ ParseDec(text) = Cardinality(Present)

\* The core obtained the tokenURI while both accounts are present, one of
\* them after a second deposit
C19_Witness ==
    /\ pc = "done"
    /\ Succeeded({"tokenURI"})
    /\ receipt.sender = CORE
    /\ balanceOf["alice"] = 2
    /\ balanceOf[OWNER] = 1
    /\ UriCountText(UriTail(UriJson)) = "2"

---------------------------------------------------------------------------
(* Claims about rejected calls *)

\* C21: rejected ledger operations are no-ops: deposit/enter with zero value
\* reverts with ZeroDeposit / ZeroAmount and withdraw/leave by an address
\* with zero balance reverts with NoBalance, and in both cases every
\* balance, totalBalance and the counter are unchanged
C21_RejectedAreNoOps ==
    /\ [][(receipt'.op \in DepositOps /\ receipt'.value = 0) =>
             /\ receipt'.error =
                  (IF receipt'.op = "deposit" THEN "ZeroDeposit"
                   ELSE "ZeroAmount")
             /\ UNCHANGED ledgerVars]_vars
    /\ [][(receipt'.op \in WithdrawOps /\ balanceOf[receipt'.sender] = 0) =>
             /\ receipt'.error = "NoBalance"
             /\ UNCHANGED ledgerVars]_vars

\* A deposit without value bounced while two addresses are present
C21_Witness ==
    /\ receipt.op \in DepositOps
    /\ receipt.value = 0
    /\ receipt.error \in {"ZeroDeposit", "ZeroAmount"}
    /\ balanceOf[receipt.sender] = 0
    /\ activeDepositors = 2
    /\ extTotalBalance = 3

---------------------------------------------------------------------------
(* Claims about the two placement laws *)

\* Twice the distance, in units of 1/intervals, of y from 200 + 599*i/intervals
RoundingError(y, i, intervals) == 2 * intervals * (y - 200) - 2 * 599 * i

\* C22: under the linear law, for every intervals >= 1 and every i in
\* 0..intervals, the y written is 200 plus the integer nearest to
\* 599*i/intervals with exact halves rounded up, that is
\* 200 + floor((2*599*i + intervals) / (2*intervals)), for odd and for even
\* intervals
C22_LinearRounding ==
    (pc = "done" /\ rev = REV_LINEAR) =>
        LET intervals == Len(ys) - 1
        IN  \A i \in 0..intervals :
              /\ ys[i + 1] = 200 + (2 * 599 * i + intervals) \div (2 * intervals)
              /\ RoundingError(ys[i + 1], i, intervals) > -intervals
              /\ RoundingError(ys[i + 1], i, intervals) <= intervals

\* Three lines: the middle one is at 200 + 299.5, an exact half, rounded up
C22_Witness ==
    /\ pc = "done"
    /\ rev = REV_LINEAR
    /\ count = 1
    /\ ys = <<200, 500, 799>>
    /\ RoundingError(ys[2], 1, 2) = 2

\* The gap between line k and line k + 1 of the lines written
Gap(k) == ys[k + 1] - ys[k]

Min(a, b) == IF a <= b THEN a ELSE b

\* Over the gaps lo..hi: the least, the greatest, and the most by which a
\* gap exceeds an earlier one
RECURSIVE GapRange(_, _)
GapRange(lo, hi) ==
    IF lo = hi THEN [min |-> Gap(lo), max |-> Gap(lo), rise |-> 0]
    ELSE LET mid == (lo + hi) \div 2
             l == GapRange(lo, mid)
             r == GapRange(mid + 1, hi)
         IN  [min |-> Min(l.min, r.min),
              max |-> Max(l.max, r.max),
              rise |-> Max(Max(l.rise, r.rise), r.max - l.min)]

\* The quadratic revision wrote three lines or more
QuadraticLines == pc = "done" /\ rev = REV_QUADRATIC /\ Len(ys) >= 3

\* C23 as stated: under the quadratic ease-out law, for every totalLines in
\* [3, threshold), the gap between consecutive lines is non-increasing in i
C23_GapsNonIncreasing ==
    QuadraticLines =>
        \A k \in 1..(Len(ys) - 2) : Gap(k + 1) <= Gap(k)

\* C23, amended: under the quadratic ease-out law, for every totalLines in
\* [3, threshold), no gap is negative, no gap exceeds an earlier gap by more
\* than 2, the first gap is at least the last, and up to 29 lines the gaps
\* are non-increasing
C23_GapsNearlyNonIncreasing ==
    QuadraticLines =>
        /\ GapRange(1, Len(ys) - 1).min >= 0
        /\ GapRange(1, Len(ys) - 1).rise <= 2
        /\ Gap(1) >= Gap(Len(ys) - 1)
        /\ Len(ys) <= 29 =>
              \A k \in 1..(Len(ys) - 2) : Gap(k + 1) <= Gap(k)

\* 30 lines: the gaps start 41, 38, 39
C23_Witness ==
    /\ QuadraticLines
    /\ Len(ys) = 30
    /\ Gap(1) = 41
    /\ Gap(2) = 38
    /\ Gap(3) = 39

---------------------------------------------------------------------------
(* Claims about re-entrant calls *)

\* The counter, the total and the ETH held agree with the balances
LedgerConsistent ==
    /\ activeDepositors = Cardinality(Present)
    /\ extTotalBalance = SumBalances(Addresses)
    /\ ethHeld = extTotalBalance

\* C24: ledger updates are atomic and mutually exclusive: a call to
\* deposit/enter or withdraw/leave that the recipient makes during the
\* transfer of withdraw/leave reverts and changes nothing; whatever is
\* called during the transfer finds the balance, the total and the counter
\* all written; the recipient is paid exactly its recorded balance; and if
\* the transfer fails the call reverts with TransferFailed and the three are
\* as they were before the call
C24_AtomicUpdates ==
    /\ [](LedgerConsistent)
    /\ [](InFlight =>
             /\ balanceOf = [frame.saved[1] EXCEPT ![frame.sender] = 0]
             /\ extTotalBalance = frame.saved[2] - frame.balance
             /\ activeDepositors = frame.saved[3] - 1
             /\ ethHeld = frame.saved[4] - frame.balance
             /\ frame.balance = frame.saved[1][frame.sender])
    /\ [][(InFlight /\ InFlight') =>
             /\ receipt'.error = "ReentrancyGuard: reentrant call"
             /\ UNCHANGED ledgerVars]_vars
    /\ [][(InFlight /\ ~InFlight') =>
             \/ /\ receipt'.error = ""
                /\ receipt'.paid = frame.balance
                /\ UNCHANGED ledgerVars
             \/ /\ receipt'.error = "TransferFailed"
                /\ receipt'.paid = 0
                /\ ledgerVars' = frame.saved]_vars

\* The contract that is being paid 2 wei called the extension again and
\* was turned away, while another address is present
C24_Witness ==
    /\ InFlight
    /\ frame.balance = 2
    /\ receipt.sender = frame.sender
    /\ receipt.op \in DepositOps
    /\ receipt.value = 1
    /\ receipt.error = "ReentrancyGuard: reentrant call"
    /\ balanceOf["alice"] = 1

===========================================================================
